---- MODULE Spec2Model ----
(***************************************************************************)
(* Model of packages/tree-sitter-allium/bindings/node/binding.cc: the     *)
(* Node addon that registers `name` and `language` on an export table and *)
(* whose `language` function wraps the address returned by the external   *)
(* accessor tree_sitter_allium() in a Napi::External.                     *)
(*                                                                         *)
(* Init is modelled statement by statement (program counter pc); the host *)
(* runs it synchronously on the one JavaScript thread, so no caller step  *)
(* is enabled while pc # "idle".                                           *)
(***************************************************************************)
EXTENDS Integers, Sequences, FiniteSets, TLC

\* ---------------------------------------------------------------- bounds
MaxInits == 3      \* Init invocations per run
MaxCalls == 3      \* invocations of the `language` function per run
MaxHostSets == 2   \* writes the host makes to export tables per run

\* ------------------------------------------------------------ vocabulary
Tables == {"t1", "t2"}                 \* export-table objects of the host
Keys == {"name", "language", "other"}  \* property keys a table may hold
AdapterKeys == {"name", "language"}
NoTable == "none"

Undefined == [kind |-> "undefined"]
Str(s) == [kind |-> "string", val |-> s]
HostValue == Str("host")

NullAddr == "NULL"
DescriptorAddr == "&language"

EmptyTable == [k \in Keys |-> Undefined]
KeysOf(tbl) == {k \in Keys : tbl[k] # Undefined}

VARIABLES
    link,          \* what the extern symbol tree_sitter_allium is bound to
    binding,       \* how the dynamic loader binds the symbol
    proc,          \* "running" | "dead"
    error,         \* "none" | "LinkageError"
    descriptor,    \* the grammar descriptor owned by the grammar engine
    tables,        \* Tables -> (Keys -> value)
    registered,    \* Tables -> keys that Init has Set on the table
    pre,           \* the table `exports` as it was when the running/last Init began
    initCount,     \* Tables -> completed Init calls
    loadAttempts,  \* attempts to load the module
    pc,            \* position inside Init
    cur,           \* the table bound to `exports` in the running Init
    nextFn,        \* identity of the next Napi::Function object
    ret,           \* what the last completed Init returned
    handles,       \* the Napi::External values returned so far
    factoryCalls,  \* invocations of the `language` function
    accessorCalls, \* calls issued to tree_sitter_allium()
    nameReads,     \* values callers read from `name` of initialised tables
    hostSets       \* writes made by the host

vars == <<link, binding, proc, error, descriptor, tables, registered, pre,
          initCount, loadAttempts, pc, cur, nextFn, ret, handles,
          factoryCalls, accessorCalls, nameReads, hostSets>>

\* ------------------------------------------------------- the adapter code

\* binding.cc:16, the module name, used where the grammar name belongs
GrammarNameAsModuleName == "tree_sitter_allium_binding"

\* binding.cc:8, the string literal bound to `name`
GrammarName == "allium"

\* binding.cc:5, the accessor of the grammar engine: one address per process
tree_sitter_allium == IF link = "null" THEN NullAddr ELSE DescriptorAddr

\* binding.cc:10, Napi::External<TSLanguage>::New(env, data)
External(data) == [tag |-> "TSLanguage", addr |-> data, id |-> Len(handles) + 1]

\* binding.cc:10 wrapping a copy of the descriptor made per call
LanguageCallbackCopy == External(<<"copy", Len(handles) + 1>>)

\* binding.cc:9-11, the value the lambda returns
LanguageCallback == External(tree_sitter_allium)

\* binding.cc:9-11, Napi::Function::New(env, lambda, "language")
NewFunction(id) == [kind |-> "function", fname |-> "language",
                    callback |-> "language_lambda", id |-> id]

Init ==
    /\ link \in {"resolved", "null", "unresolved"}
    /\ binding \in {"eager", "lazy"}
    /\ proc = "running"
    /\ error = "none"
    /\ descriptor = [addr |-> DescriptorAddr, state |-> "live", content |-> "tables"]
    /\ tables = [t \in Tables |-> EmptyTable]
    /\ registered = [t \in Tables |-> {}]
    /\ pre = EmptyTable
    /\ initCount = [t \in Tables |-> 0]
    /\ loadAttempts = 0
    /\ pc = "idle"
    /\ cur = NoTable
    /\ nextFn = 1
    /\ ret = NoTable
    /\ handles = <<>>
    /\ factoryCalls = 0
    /\ accessorCalls = 0
    /\ nameReads = {}
    /\ hostSets = 0

CallerCanRun == proc = "running" /\ pc = "idle"

\* binding.cc:16, the host loads the module and calls Init(env, exports)
Load(t) ==
    /\ CallerCanRun
    /\ loadAttempts < MaxInits
    /\ loadAttempts' = loadAttempts + 1
    /\ IF link = "unresolved" /\ binding = "eager"
       THEN /\ error' = "LinkageError"
            /\ UNCHANGED <<pc, cur, pre>>
       ELSE /\ pc' = "entry"
            /\ cur' = t
            /\ pre' = tables[t]
            /\ UNCHANGED error
    /\ UNCHANGED <<link, binding, proc, descriptor, tables, registered,
                   initCount, nextFn, ret, handles, factoryCalls,
                   accessorCalls, nameReads, hostSets>>

\* binding.cc:8 with the value made to depend on an earlier registration
InitSetNameSuffixed ==
    /\ pc = "entry"
    /\ tables' = [tables EXCEPT ![cur]["name"] =
                     IF "name" \in registered[cur]
                     THEN Str("allium_2") ELSE Str(GrammarName)]
    /\ registered' = [registered EXCEPT ![cur] = @ \cup {"name"}]
    /\ pc' = "name_set"
    /\ UNCHANGED <<link, binding, proc, error, descriptor, pre, initCount,
                   loadAttempts, cur, nextFn, ret, handles, factoryCalls,
                   accessorCalls, nameReads, hostSets>>

\* binding.cc:8, exports.Set("name", "allium")
InitSetName ==
    /\ pc = "entry"
    /\ tables' = [tables EXCEPT ![cur]["name"] = Str(GrammarName)]
    /\ registered' = [registered EXCEPT ![cur] = @ \cup {"name"}]
    /\ pc' = "name_set"
    /\ UNCHANGED <<link, binding, proc, error, descriptor, pre, initCount,
                   loadAttempts, cur, nextFn, ret, handles, factoryCalls,
                   accessorCalls, nameReads, hostSets>>

\* binding.cc:9-11 followed at once by `return exports`
InitNewFunctionEarlyReturn ==
    /\ pc = "name_set"
    /\ nextFn' = nextFn + 1
    /\ ret' = cur
    /\ initCount' = [initCount EXCEPT ![cur] = @ + 1]
    /\ pc' = "idle"
    /\ UNCHANGED <<link, binding, proc, error, descriptor, tables, registered,
                   pre, loadAttempts, cur, handles, factoryCalls,
                   accessorCalls, nameReads, hostSets>>

\* binding.cc:9-11 with the accessor called while the function is built
InitNewFunctionCaching ==
    /\ pc = "name_set"
    /\ nextFn' = nextFn + 1
    /\ accessorCalls' = accessorCalls + 1
    /\ pc' = "fn_made"
    /\ UNCHANGED <<link, binding, proc, error, descriptor, tables, registered,
                   pre, initCount, loadAttempts, cur, ret, handles,
                   factoryCalls, nameReads, hostSets>>

\* binding.cc:9-11, Napi::Function::New: builds the function object; the lambda
\* is not run and the accessor is not called
InitNewFunction ==
    /\ pc = "name_set"
    /\ nextFn' = nextFn + 1
    /\ pc' = "fn_made"
    /\ UNCHANGED <<link, binding, proc, error, descriptor, tables, registered,
                   pre, initCount, loadAttempts, cur, ret, handles,
                   factoryCalls, accessorCalls, nameReads, hostSets>>

\* binding.cc:12 with the function also bound to a second key
InitSetLanguageExtraKey ==
    /\ pc = "fn_made"
    /\ tables' = [tables EXCEPT ![cur]["language"] = NewFunction(nextFn - 1),
                                ![cur]["other"] = NewFunction(nextFn - 1)]
    /\ registered' = [registered EXCEPT ![cur] = @ \cup {"language"}]
    /\ pc' = "lang_set"
    /\ UNCHANGED <<link, binding, proc, error, descriptor, pre, initCount,
                   loadAttempts, cur, nextFn, ret, handles, factoryCalls,
                   accessorCalls, nameReads, hostSets>>

\* binding.cc:12 left out
InitSetLanguageSkipped ==
    /\ pc = "fn_made"
    /\ pc' = "lang_set"
    /\ UNCHANGED <<link, binding, proc, error, descriptor, tables, registered,
                   pre, initCount, loadAttempts, cur, nextFn, ret, handles,
                   factoryCalls, accessorCalls, nameReads, hostSets>>

\* binding.cc:12, exports.Set("language", language)
InitSetLanguage ==
    /\ pc = "fn_made"
    /\ tables' = [tables EXCEPT ![cur]["language"] = NewFunction(nextFn - 1)]
    /\ registered' = [registered EXCEPT ![cur] = @ \cup {"language"}]
    /\ pc' = "lang_set"
    /\ UNCHANGED <<link, binding, proc, error, descriptor, pre, initCount,
                   loadAttempts, cur, nextFn, ret, handles, factoryCalls,
                   accessorCalls, nameReads, hostSets>>

\* binding.cc:13 returning a new object instead of `exports`
InitReturnFresh ==
    /\ pc = "lang_set"
    /\ ret' = "fresh"
    /\ initCount' = [initCount EXCEPT ![cur] = @ + 1]
    /\ pc' = "idle"
    /\ UNCHANGED <<link, binding, proc, error, descriptor, tables, registered,
                   pre, loadAttempts, cur, nextFn, handles, factoryCalls,
                   accessorCalls, nameReads, hostSets>>

\* binding.cc:13, return exports
InitReturn ==
    /\ pc = "lang_set"
    /\ ret' = cur
    /\ initCount' = [initCount EXCEPT ![cur] = @ + 1]
    /\ pc' = "idle"
    /\ UNCHANGED <<link, binding, proc, error, descriptor, tables, registered,
                   pre, loadAttempts, cur, nextFn, handles, factoryCalls,
                   accessorCalls, nameReads, hostSets>>

\* binding.cc:10 with a finalizer that releases the wrapped data
LanguageCallbackWithFinalizer ==
    /\ descriptor' = [descriptor EXCEPT !.state = "freed"]
    /\ UNCHANGED <<tables, registered, pre, initCount, nextFn, ret>>

\* binding.cc:9-11, the lambda captures nothing and writes nothing: what an
\* invocation leaves alone
LanguageCallbackFrame ==
    UNCHANGED <<descriptor, tables, registered, pre, initCount, nextFn, ret>>

\* binding.cc:9-11, a caller invokes exports.language(): the lambda calls the
\* accessor (line 10) and returns the External.  With the symbol unresolved
\* under lazy binding the call cannot be bound and the loader ends the process.
CallLanguage(t) ==
    /\ CallerCanRun
    /\ tables[t]["language"].kind = "function"
    /\ factoryCalls < MaxCalls
    /\ factoryCalls' = factoryCalls + 1
    /\ accessorCalls' = accessorCalls + 1
    /\ IF link = "unresolved"
       THEN /\ proc' = "dead"
            /\ error' = "LinkageError"
            /\ UNCHANGED handles
       ELSE /\ handles' = Append(handles, LanguageCallback)
            /\ UNCHANGED <<proc, error>>
    /\ LanguageCallbackFrame
    /\ UNCHANGED <<link, binding, loadAttempts, pc, cur, nameReads, hostSets>>

\* a caller reads exports.name of a table Init has returned
ReadName(t) ==
    /\ CallerCanRun
    /\ initCount[t] > 0
    /\ nameReads' = nameReads \cup {tables[t]["name"]}
    /\ UNCHANGED <<link, binding, proc, error, descriptor, tables, registered,
                   pre, initCount, loadAttempts, pc, cur, nextFn, ret, handles,
                   factoryCalls, accessorCalls, hostSets>>

\* the host writes an entry of its own to a table: any key before the table is
\* handed to Init, afterwards only keys the adapter does not register
HostSet(t, k) ==
    /\ CallerCanRun
    /\ hostSets < MaxHostSets
    /\ k \notin AdapterKeys \/ registered[t] = {}
    /\ tables[t][k] = Undefined
    /\ tables' = [tables EXCEPT ![t][k] = HostValue]
    /\ hostSets' = hostSets + 1
    /\ UNCHANGED <<link, binding, proc, error, descriptor, registered, pre,
                   initCount, loadAttempts, pc, cur, nextFn, ret, handles,
                   factoryCalls, accessorCalls, nameReads>>

Next ==
    \/ \E t \in Tables : Load(t)
    \/ InitSetName
    \/ InitNewFunction
    \/ InitSetLanguage
    \/ InitReturn
    \/ \E t \in Tables : CallLanguage(t)
    \/ \E t \in Tables : ReadName(t)
    \/ \E t \in Tables, k \in Keys : HostSet(t, k)

Spec == Init /\ [][Next]_vars

\* ------------------------------------------------------------ properties

HandleIdx == 1..Len(handles)
BothOrNeither(t) == registered[t] = {} \/ registered[t] = AdapterKeys
IsLanguageFunction(v) ==
    /\ v.kind = "function"
    /\ v.fname = "language"
    /\ v.callback = "language_lambda"

\* C1 (identity stability): every handle returned so far wraps the address
\* that tree_sitter_allium() returns, so all of them wrap one address, and
\* each invocation made a handle of its own.
C1_IdentityStability ==
    /\ \A i \in HandleIdx : handles[i].addr = tree_sitter_allium
    /\ \A i, j \in HandleIdx : handles[i].addr = handles[j].addr
    /\ \A i, j \in HandleIdx : i # j => handles[i] # handles[j]

C1_Witness ==
    /\ link = "resolved"
    /\ Len(handles) >= 3
    /\ initCount["t1"] >= 1 /\ initCount["t2"] >= 1
    /\ nameReads # {}

\* C2 (export completeness): once Init has returned on a table, Init has set
\* exactly `name` and `language` on it, `name` is the string "allium",
\* `language` is the function named "language", every other key present holds
\* a value the host wrote, and a table the host wrote nothing to holds
\* exactly the two keys.
C2_ExportCompleteness ==
    \A t \in Tables :
        initCount[t] > 0 =>
            /\ registered[t] = AdapterKeys
            /\ tables[t]["name"] = Str("allium")
            /\ IsLanguageFunction(tables[t]["language"])
            /\ \A k \in KeysOf(tables[t]) \ AdapterKeys : tables[t][k] = HostValue
            /\ hostSets = 0 => KeysOf(tables[t]) = AdapterKeys

C2_Witness ==
    /\ pc = "idle"
    /\ hostSets = 0
    /\ initCount["t1"] = 1
    /\ KeysOf(tables["t1"]) = {"name", "language"}
    /\ KeysOf(tables["t2"]) = {}

SameFunctionBehaviour(f, g) ==
    /\ f.kind = "function" /\ g.kind = "function"
    /\ f.fname = g.fname
    /\ f.callback = g.callback

\* C3 (idempotent registration): when Init returns on a table it had already
\* initialised, the table has the key set it had when this call began, with
\* the same `name`, the same entries under other keys, and under `language` a
\* function of the same name running the same callback.
C3_IdempotentRegistration ==
    [][(pc = "lang_set" /\ pc' = "idle" /\ initCount[cur] >= 1) =>
          /\ KeysOf(tables'[cur]) = KeysOf(pre)
          /\ tables'[cur]["name"] = pre["name"]
          /\ tables'[cur]["other"] = pre["other"]
          /\ SameFunctionBehaviour(tables'[cur]["language"], pre["language"])
          /\ registered'[cur] = AdapterKeys]_vars

C3_Witness ==
    /\ pc = "idle"
    /\ initCount["t1"] >= 2
    /\ tables["t1"]["name"] = Str("allium")
    /\ tables["t1"]["language"].kind = "function"
    /\ tables["t1"]["language"].id >= 2

C5_NameConstancy ==
    /\ nameReads \subseteq {Str("allium")}
    /\ \A t \in Tables : initCount[t] > 0 => tables[t]["name"] = Str("allium")

C5_Witness ==
    /\ nameReads = {Str("allium")}
    /\ factoryCalls >= 1
    /\ \E t \in Tables : initCount[t] >= 2

\* C6 (frame of Init): a step of Init changes no entry other than `name` and
\* `language` of the table it was given, changes no other table, leaves the
\* descriptor and the handles alone, and on return hands back that table.
C6_InitFrame ==
    [][pc # "idle" =>
          /\ \A t \in Tables, k \in Keys :
                (t # cur \/ k \notin AdapterKeys) => tables'[t][k] = tables[t][k]
          /\ descriptor' = descriptor
          /\ handles' = handles
          /\ pc' = "idle" => ret' = cur]_vars

C6_Witness ==
    /\ pc = "idle"
    /\ ret = "t1"
    /\ initCount["t1"] >= 1
    /\ pre["other"] = HostValue
    /\ tables["t1"]["other"] = HostValue
    /\ tables["t2"]["name"] = HostValue

\* C7 as stated: a null descriptor address is never wrapped: with the
\* accessor returning null every invocation of `language` signals
\* LinkageError and returns no handle.
C7_NullNeverWrapped ==
    /\ \A i \in HandleIdx : handles[i].addr # NullAddr
    /\ (link = "null" /\ factoryCalls > 0) => error = "LinkageError"

\* C8 (frame of the factory): an invocation of `language` leaves the
\* descriptor and every export table (keys, values and what Init registered)
\* unchanged.
C8_FactoryFrame ==
    [][factoryCalls' # factoryCalls =>
          /\ descriptor' = descriptor
          /\ tables' = tables
          /\ registered' = registered]_vars

C8_Witness ==
    /\ factoryCalls >= 2
    /\ Len(handles) >= 2
    /\ descriptor.state = "live"
    /\ registered["t1"] = AdapterKeys

\* C9 (registration ordering): whenever a caller can run, Init has set both
\* entries of a table or neither; inside the first Init on a table `name` is
\* set before the function is built and `language` after it.
C9_RegistrationOrdering ==
    /\ CallerCanRun => \A t \in Tables : BothOrNeither(t)
    /\ (pc \in {"name_set", "fn_made"} /\ initCount[cur] = 0) =>
          registered[cur] = {"name"}
    /\ pc = "entry" /\ initCount[cur] = 0 => registered[cur] = {}
    /\ pc = "lang_set" => registered[cur] = AdapterKeys

C9_Witness ==
    /\ CallerCanRun
    /\ registered["t1"] = AdapterKeys
    /\ registered["t2"] = {}
    /\ loadAttempts >= 2

\* C10 (accessor calls): the accessor has been called once for each
\* invocation of `language` and never by Init.
C10_AccessorCalls == accessorCalls = factoryCalls

C10_Witness ==
    /\ factoryCalls >= 2
    /\ accessorCalls >= 2
    /\ initCount["t1"] + initCount["t2"] >= 2
====
